---- MODULE Spec2Model ----
(***************************************************************************)
(* Onboarding controller (OnboardingContext.tsx), the two download step    *)
(* views (ParakeetDownloadStep.tsx, SummaryModelDownloadStep) and the      *)
(* completion view (CompletionStep.tsx) as one state machine.              *)
(*                                                                         *)
(* One action is one task of the JavaScript event loop: a click handler,   *)
(* an event listener callback, a timer callback or the continuation of an  *)
(* awaited call.  The state updates of one task are batched, the views     *)
(* re-render, and the effects whose dependencies changed run until the     *)
(* state is stable; all of that is part of the action (operator Commit).   *)
(***************************************************************************)
EXTENDS Integers, FiniteSets, Sequences, TLC

\* ------------------------------------------------------------ constants

\* The two tracked resources: the transcription model and the summary model.
Res == {"parakeet", "summary"}

\* goToStep / goNext / goPrevious clamp to [1, 6].
MIN_STEP == 1
MAX_STEP == 6

\* "Step 3: Parakeet, Step 4: Summary, Step 5: Complete".
PARAKEET_STEP == 3
SUMMARY_STEP == 4
COMPLETION_STEP == 5

\* Progress reaching 100 is a terminal progress value.
FULL_PROGRESS == 100

\* The identifier of the transcription model.
PARAKEET_MODEL == "parakeet-tdt-0.6b-v3-int8"

\* The summary models the wizard offers; the first is the default selection
\* and the fallback when there is no recommendation.
GEMMA == "gemma3:1b"
MISTRAL == "mistral:7b"

SummaryVariants == {GEMMA, MISTRAL}

\* The model identifiers an event of a stream can carry.
EventIds(r) ==
    IF r = "parakeet" THEN {PARAKEET_MODEL, "another-parakeet-model"}
    ELSE SummaryVariants \cup {"another-summary-model"}

\* ---------------------------------------------------------------- bounds

\* Persisted current_step values and goToStep arguments range over
\* MIN_STEP - StepSlack .. MAX_STEP + StepSlack.
StepSlack == 2

\* The progress value of a partial download (the resume scenario's 42 %).
PartialProgress == 42

\* A view offers Retry at most this many times per mount.
MaxRetry == 1

\* At most this many save requests are on their way to the store.
MaxInFlight == 1

PersistedSteps == (MIN_STEP - StepSlack)..(MAX_STEP + StepSlack)

StepArgs == (MIN_STEP - StepSlack)..(MAX_STEP + StepSlack)

EventProgress == {PartialProgress, FULL_PROGRESS}

\* ------------------------------------------------------------- variables

VARIABLES
    \* collaborators
    onDisk,         \* [Res -> BOOLEAN]: the resource is present and usable
    store,          \* {} or {record}: the persisted onboarding status
    saveInFlight,   \* save_onboarding_status_cmd payloads not yet stored
    bk,             \* [Res -> {"idle","active"}]: a download is running
    bprog,          \* [Res -> Nat]: last progress the running download emitted
    isMac,          \* platform flag handed to CompletionStep
    summaryVariant, \* the summary model this machine recommends / holds
    \* OnboardingProvider
    currentStep, completed, downloaded, progress,
    selectedSummaryModel,
    saveTimer,      \* {} or {payload}: the pending debounce timer's closure
    subs,           \* the event-stream subscriptions the provider made
    loadPc,         \* position of loadOnboardingStatus
    savedStatus,    \* {} or {record}: the status loadOnboardingStatus read
    recon,          \* history: {} or {the results of verifyModelStatus's
                    \* two verifications, and which of the calls failed}
    finPc,          \* position of completeOnboarding's invoke
    session,        \* "running", "reloaded" after window.location.reload(),
                    \* "unmounted" after OnboardingProvider left the tree
    \* download step views (one per resource, mounted on its step)
    tracker,        \* [Res -> local state of the view]
    orphan,         \* [Res -> BOOLEAN]: initializeStep of an unmounted view pending
    \* CompletionStep
    completion,
    \* history: both resources were on disk when completeOnboarding was called
    callLive,
    \* history: the last event delivered with an identifier that is not the
    \* tracked one of its stream (flip tells two equal events apart)
    foreign

envVars == <<onDisk, store, saveInFlight, bk, bprog, isMac, summaryVariant>>
ctlVars == <<currentStep, completed, downloaded, progress, selectedSummaryModel,
            saveTimer, subs>>
loadVars == <<loadPc, savedStatus, recon>>
viewVars == <<tracker, orphan, completion>>
vars == <<envVars, ctlVars, loadVars, viewVars, finPc, session, callLive, foreign>>

\* ---------------------------------------------------------------- helpers

Min(a, b) == IF a < b THEN a ELSE b

Max(a, b) == IF a > b THEN a ELSE b

StepOf(r) == IF r = "parakeet" THEN PARAKEET_STEP ELSE SUMMARY_STEP

NoneDownloaded == [r \in Res |-> FALSE]

\* parakeetDownloaded ? 'downloaded' : 'not_downloaded'
Label(b) == IF b THEN "downloaded" ELSE "not_downloaded"

\* The payload of save_onboarding_status_cmd built by saveOnboardingStatus
\* (version and last_updated carry no state).
SavePayload(step, comp, dl) ==
    [completed |-> comp, current_step |-> step,
     parakeet |-> Label(dl["parakeet"]), summary |-> Label(dl["summary"])]

\* The records a store can hold when the session starts.
PersistedRecords ==
    [completed : BOOLEAN, current_step : PersistedSteps,
     parakeet : {"downloaded", "not_downloaded"},
     summary : {"downloaded", "not_downloaded"}]

\* ------------------------------------------------- controller functions

\* goToStep: Math.max(1, Math.min(step, 6)).
goToStep(step) == Max(MIN_STEP, Min(step, MAX_STEP))

\* goNext: Math.min(prev + 1, 6).
goNext(prev) == Min(prev + 1, MAX_STEP)

\* goPrevious: Math.max(prev - 1, 1).
goPrevious(prev) == Max(prev - 1, MIN_STEP)

\* A variant of the policy that tests the summary rule before the
\* transcription rule; C2 separates it from verifyModelStatus.
verifyModelStatusSummaryFirst(saved, parakeetDownloaded, summaryModelDownloaded) ==
    LET step == saved.current_step
        done == saved.completed
        res(s, c) == [currentStep |-> s, completed |-> c,
                      parakeetDownloaded |-> parakeetDownloaded,
                      summaryModelDownloaded |-> summaryModelDownloaded]
    IN  IF step > SUMMARY_STEP /\ ~summaryModelDownloaded
        THEN res(SUMMARY_STEP, FALSE)
        ELSE IF step > PARAKEET_STEP /\ ~parakeetDownloaded
        THEN res(PARAKEET_STEP, FALSE)
        ELSE IF done /\ (~parakeetDownloaded \/ ~summaryModelDownloaded)
        THEN res(IF ~parakeetDownloaded THEN PARAKEET_STEP ELSE SUMMARY_STEP,
                 FALSE)
        ELSE res(step, done)

\* A variant of the policy whose third rule prefers the summary step; C3
\* separates it from verifyModelStatus.
verifyModelStatusSummaryPriority(saved, parakeetDownloaded, summaryModelDownloaded) ==
    LET step == saved.current_step
        done == saved.completed
        res(s, c) == [currentStep |-> s, completed |-> c,
                      parakeetDownloaded |-> parakeetDownloaded,
                      summaryModelDownloaded |-> summaryModelDownloaded]
    IN  IF step > PARAKEET_STEP /\ ~parakeetDownloaded
        THEN res(PARAKEET_STEP, FALSE)
        ELSE IF step > SUMMARY_STEP /\ ~summaryModelDownloaded
        THEN res(SUMMARY_STEP, FALSE)
        ELSE IF done /\ (~parakeetDownloaded \/ ~summaryModelDownloaded)
        THEN res(IF ~summaryModelDownloaded THEN SUMMARY_STEP ELSE PARAKEET_STEP,
                 FALSE)
        ELSE res(step, done)

\* A variant of the policy that counts a resource as downloaded when the
\* persisted model_status says so; C20 separates it from verifyModelStatus.
verifyModelStatusTrustingLabels(saved, parakeetDownloaded, summaryModelDownloaded) ==
    LET step == saved.current_step
        done == saved.completed
        pk == parakeetDownloaded \/ saved.parakeet = "downloaded"
        sm == summaryModelDownloaded \/ saved.summary = "downloaded"
        res(s, c) == [currentStep |-> s, completed |-> c,
                      parakeetDownloaded |-> pk,
                      summaryModelDownloaded |-> sm]
    IN  IF step > PARAKEET_STEP /\ ~pk
        THEN res(PARAKEET_STEP, FALSE)
        ELSE IF step > SUMMARY_STEP /\ ~sm
        THEN res(SUMMARY_STEP, FALSE)
        ELSE IF done /\ (~pk \/ ~sm)
        THEN res(IF ~pk THEN PARAKEET_STEP ELSE SUMMARY_STEP, FALSE)
        ELSE res(step, done)

\* A variant of the policy without its third rule (a completed status with
\* a resource not verified); C32 separates it from verifyModelStatus.
verifyModelStatusTwoRules(saved, parakeetDownloaded, summaryModelDownloaded) ==
    LET step == saved.current_step
        done == saved.completed
        res(s, c) == [currentStep |-> s, completed |-> c,
                      parakeetDownloaded |-> parakeetDownloaded,
                      summaryModelDownloaded |-> summaryModelDownloaded]
    IN  IF step > PARAKEET_STEP /\ ~parakeetDownloaded
        THEN res(PARAKEET_STEP, FALSE)
        ELSE IF step > SUMMARY_STEP /\ ~summaryModelDownloaded
        THEN res(SUMMARY_STEP, FALSE)
        ELSE res(step, done)

\* verifyModelStatus, the corrective policy applied to the saved status and
\* the two verification results (a failed verification call gives FALSE).
verifyModelStatus(saved, parakeetDownloaded, summaryModelDownloaded) ==
    LET step == saved.current_step
        done == saved.completed
    IN  IF step > PARAKEET_STEP /\ ~parakeetDownloaded
        THEN [currentStep |-> PARAKEET_STEP, completed |-> FALSE,
              parakeetDownloaded |-> parakeetDownloaded,
              summaryModelDownloaded |-> summaryModelDownloaded]
        ELSE IF step > SUMMARY_STEP /\ ~summaryModelDownloaded
        THEN [currentStep |-> SUMMARY_STEP, completed |-> FALSE,
              parakeetDownloaded |-> parakeetDownloaded,
              summaryModelDownloaded |-> summaryModelDownloaded]
        ELSE IF done /\ (~parakeetDownloaded \/ ~summaryModelDownloaded)
        THEN [currentStep |-> IF ~parakeetDownloaded THEN PARAKEET_STEP
                              ELSE SUMMARY_STEP,
              completed |-> FALSE,
              parakeetDownloaded |-> parakeetDownloaded,
              summaryModelDownloaded |-> summaryModelDownloaded]
        ELSE [currentStep |-> step, completed |-> done,
              parakeetDownloaded |-> parakeetDownloaded,
              summaryModelDownloaded |-> summaryModelDownloaded]

\* A variant of the auto-save effect without the early return on
\* completed; C7 separates it from AutoSave.
AutoSaveAlways(changed, step, comp, dl) ==
    IF ~changed THEN saveTimer
    ELSE {SavePayload(step, comp, dl)}

\* The auto-save effect.  changed: one of its dependencies (currentStep,
\* parakeetDownloaded, summaryModelDownloaded, completed) differs in some
\* render of this task.  It clears the pending timer, and unless completed
\* it starts a new one whose callback saves the values of that render.
AutoSave(changed, step, comp, dl) ==
    IF ~changed THEN saveTimer
    ELSE IF comp THEN {}
    ELSE {SavePayload(step, comp, dl)}

\* -------------------------------------------------- download step views

NoError == "none"

\* The local state of a download step view that is not mounted.
Unmounted ==
    [status |-> "checking", error |-> NoError, verifiedNotReady |-> FALSE,
     retryCount |-> 0, initPc |-> "none", dlCall |-> FALSE,
     \* history of this mount: the result of its own verification, whether
     \* a terminal event of its resource (or a positive verification by an
     \* earlier instance) arrived after a negative or failed one, whether
     \* it issued a download call, and how many
     verified |-> "none", sawCompletion |-> FALSE, triggered |-> FALSE,
     calls |-> 0]

\* A variant of initializeStep without the in-flight branch; C15 separates
\* it from MountState.
MountStateAlwaysVerify(p) == [Unmounted EXCEPT !.initPc = "verify"]

\* Mounting a download step view: useState defaults, then initializeStep up
\* to its first await.  An in-flight download (0 < progress < 100) goes to
\* 'downloading' without a verification call.
MountState(p) ==
    IF p > 0 /\ p < FULL_PROGRESS
    THEN [Unmounted EXCEPT !.status = "downloading"]
    ELSE [Unmounted EXCEPT !.initPc = "verify"]

\* A variant of the sync effect without the early return on
\* verifiedNotReady; C21 separates it from SyncStatus.
SyncStatusUnguarded(t, dl, p) ==
    IF t.status = "checking" THEN t.status
    ELSE IF dl THEN "downloaded"
    ELSE IF p > 0 /\ t.status # "error" THEN "downloading"
    ELSE t.status

\* The sync effect's setStatus, given the values of one render.
SyncStatus(t, dl, p) ==
    IF t.status = "checking" THEN t.status
    ELSE IF t.verifiedNotReady THEN t.status
    ELSE IF dl THEN "downloaded"
    ELSE IF p > 0 /\ t.status # "error" THEN "downloading"
    ELSE t.status

\* The auto-start effect calls downloadParakeet / downloadSummaryModel.
AutoStart(t) == t.status = "ready" /\ t.error = NoError

\* The reset effect: progress >= 100 while verifiedNotReady.
ResetGuard(t, p) == p >= FULL_PROGRESS /\ t.verifiedNotReady

\* One render of a mounted view followed by its effects, in the order of
\* their declaration: sync, auto-start, reset.  All three read the values
\* of this render; their updates are batched, the last setStatus wins.
\* f = [t: local state, dl: shared downloaded flag, prog: shared progress,
\*      started: a download call was issued].
EffectPass(f) ==
    LET t == f.t
        auto == AutoStart(t)
        reset == ResetGuard(t, f.prog)
        st == IF reset THEN "downloaded"
              ELSE IF auto THEN "downloading"
              ELSE SyncStatus(t, f.dl, f.prog)
    IN  [t |-> [t EXCEPT !.status = st,
                         !.verifiedNotReady = IF reset THEN FALSE ELSE @,
                         !.dlCall = IF auto THEN TRUE ELSE @,
                         !.triggered = IF auto THEN TRUE ELSE @,
                         !.calls = IF auto THEN @ + 1 ELSE @],
         dl |-> IF reset THEN TRUE ELSE f.dl,
         prog |-> f.prog,
         started |-> f.started \/ auto]

\* Renders and effects until nothing changes.
RECURSIVE Flush(_)
Flush(f) == IF EffectPass(f) = f THEN f ELSE Flush(EffectPass(f))

\* --------------------------------------------------------- CompletionStep

NoCompletion ==
    [parakeet |-> "checking", summary |-> "checking", verifyPc |-> "none",
     isCompleting |-> FALSE,
     completionError |-> NoError,
     \* history: what complete_onboarding threw and what handleDone caught,
     \* and how handleDone answered the last click ("refused", "invoked")
     thrown |-> NoError, caught |-> NoError, lastRequest |-> "none"]

\* Mounting CompletionStep: useState defaults, then verifyModels up to its
\* first await.
CompletionMount == [NoCompletion EXCEPT !.verifyPc = "verify"]

\* ------------------------------------------------------------------ commit

\* ---------------------------------------------- event-stream subscriptions

\* The events OnboardingProvider listens to.
PARAKEET_PROGRESS == "parakeet-model-download-progress"
PARAKEET_COMPLETE == "parakeet-model-download-complete"
PARAKEET_ERROR == "parakeet-model-download-error"
SUMMARY_PROGRESS == "builtin-ai-download-progress"

\* The stream the progress events of r arrive on.
ProgressStream(r) ==
    IF r = "parakeet" THEN PARAKEET_PROGRESS ELSE SUMMARY_PROGRESS

\* One call of listen(): the stream, the how-manieth subscription of the
\* stream it is, the selectedSummaryModel its handler closed over, where
\* the registration stands ("pending" until the promise settles, then
\* "registered" or "rejected", "released" once the unlisten function ran),
\* and where it stood when the effect's cleanup ran ("none": not yet).
Subscription(stream, gen, selected, reg) ==
    [stream |-> stream, gen |-> gen, selected |-> selected, reg |-> reg,
     cleanupAt |-> "none"]

\* The subscriptions of the two listener effects' first run: the three
\* of the parakeet effect at regP, the one of the summary effect at regS.
Subscribed(regP, regS) ==
    {Subscription(st, 1, GEMMA, regP) :
       st \in {PARAKEET_PROGRESS, PARAKEET_COMPLETE, PARAKEET_ERROR}}
      \cup {Subscription(SUMMARY_PROGRESS, 1, GEMMA, regS)}

\* A variant of the cleanup that calls the unlisten function only if the
\* registration has resolved by then; C31 separates it from Unlisten.
UnlistenResolvedOnly(s) ==
    IF s.cleanupAt = "none" /\ s.reg = "registered"
    THEN [s EXCEPT !.cleanupAt = s.reg]
    ELSE s

\* The cleanup of a listener effect, unlisten.then(fn => fn()): the
\* unlisten function is called as soon as the registration has resolved.
Unlisten(s) ==
    IF s.cleanupAt = "none" THEN [s EXCEPT !.cleanupAt = s.reg] ELSE s

\* The subscriptions held by the last run of the two listener effects:
\* the three of the parakeet effect and the newest of the summary effect.
LastRun(ss) ==
    {s \in ss : \A o \in ss : o.stream = s.stream => o.gen <= s.gen}

\* The summary listener effect runs again when selectedSummaryModel
\* changed: the cleanup of its previous run, then a new listen().
Resubscribe(ss, selected) ==
    LET last == {s \in LastRun(ss) : s.stream = SUMMARY_PROGRESS}
        gen == Cardinality({s \in ss : s.stream = SUMMARY_PROGRESS})
    IN  {IF s \in last THEN Unlisten(s) ELSE s : s \in ss}
          \cup {Subscription(SUMMARY_PROGRESS, gen + 1, selected, "pending")}

\* Events of the stream reach a handler of the provider.
Listening(stream) ==
    \E s \in subs : s.stream = stream /\ s.reg = "registered"

\* The cleanup of the auto-save effect:
\* if (saveTimeoutRef.current) clearTimeout(saveTimeoutRef.current).
clearTimeout(timer) == {}

\* The values a task starts from; a handler describes its batched updates
\* as [Cur EXCEPT ...].
Cur ==
    [step |-> currentStep, completed |-> completed, downloaded |-> downloaded,
     progress |-> progress, selected |-> selectedSummaryModel,
     tracker |-> tracker, orphan |-> orphan,
     completion |-> completion, bk |-> bk, bprog |-> bprog]

\* The end of a task: the batched updates u are rendered.  A view is mounted
\* exactly while currentStep is its step; a view that leaves loses its local
\* state, but an initializeStep awaiting its verification call still runs to
\* its end (orphan).  A download call issued by the auto-start effect
\* starts the download.
Commit(u) ==
    LET t1 == [r \in Res |->
                 IF u.step # StepOf(r) THEN Unmounted
                 ELSE IF currentStep = StepOf(r) THEN u.tracker[r]
                 ELSE MountState(u.progress[r])]
        fl == [r \in Res |->
                 Flush([t |-> t1[r], dl |-> u.downloaded[r],
                        prog |-> u.progress[r], started |-> FALSE])]
        fd == [r \in Res |-> fl[r].dl]
        changed == \/ <<u.step, u.completed, u.downloaded>>
                        # <<currentStep, completed, downloaded>>
                   \/ fd # u.downloaded
    IN  /\ currentStep' = u.step
        /\ completed' = u.completed
        /\ downloaded' = fd
        /\ progress' = u.progress
        /\ selectedSummaryModel' = u.selected
        /\ tracker' = [r \in Res |-> fl[r].t]
        /\ orphan' = [r \in Res |->
                        \/ u.orphan[r]
                        \/ /\ currentStep = StepOf(r)
                           /\ u.step # StepOf(r)
                           /\ u.tracker[r].initPc = "verify"]
        /\ bk' = [r \in Res |-> IF fl[r].started THEN "active" ELSE u.bk[r]]
        /\ bprog' = [r \in Res |->
                       IF fl[r].started /\ u.bk[r] = "idle" THEN 0
                       ELSE u.bprog[r]]
        /\ completion' = IF u.step # COMPLETION_STEP THEN NoCompletion
                         ELSE IF currentStep = COMPLETION_STEP THEN u.completion
                         ELSE CompletionMount
        /\ saveTimer' = AutoSave(changed, u.step, u.completed, fd)
        /\ subs' = IF u.selected # selectedSummaryModel
                   THEN Resubscribe(subs, u.selected)
                   ELSE subs

\* -------------------------------------------------------------------- Init

NoForeign == [stream |-> "none", id |-> "none", flip |-> FALSE]

\* The state after OnboardingProvider mounted: useState defaults, the
\* auto-save effect has started its first timer, loadOnboardingStatus is at
\* pc ("get": it awaits get_onboarding_status), the provider holds the
\* subscriptions ss.
MountedWith(st, mac, pc, variant, ss) ==
    /\ onDisk \in [Res -> BOOLEAN]
    /\ subs = ss
    /\ summaryVariant = variant
    /\ selectedSummaryModel = GEMMA
    /\ foreign = NoForeign
    /\ store = st
    /\ saveInFlight = {}
    /\ bk = [r \in Res |-> "idle"]
    /\ bprog = [r \in Res |-> 0]
    /\ isMac = mac
    /\ currentStep = 1
    /\ completed = FALSE
    /\ downloaded = NoneDownloaded
    /\ progress = [r \in Res |-> 0]
    /\ saveTimer = {SavePayload(1, FALSE, NoneDownloaded)}
    /\ loadPc = pc
    /\ savedStatus = {}
    /\ recon = {}
    /\ finPc = "none"
    /\ session = "running"
    /\ tracker = [r \in Res |-> Unmounted]
    /\ orphan = [r \in Res |-> FALSE]
    /\ completion = NoCompletion
    /\ callLive = FALSE

\* The provider once the registrations of its listeners have resolved.
Mounted(st, mac, pc, variant) ==
    MountedWith(st, mac, pc, variant, Subscribed("registered", "registered"))

\* What the store can hold when a session starts: nothing, or any record.
Stores == {{}} \cup {{s} : s \in PersistedRecords}

Init ==
    \E st \in Stores, mac \in BOOLEAN, v \in SummaryVariants :
        MountedWith(st, mac, "get", v, Subscribed("pending", "pending"))

\* ------------------------------------------------- loadOnboardingStatus

\* A variant of loadOnboardingStatus that takes a missing status for a
\* finished onboarding; C18 separates it from LoadGet.
LoadGetAssumesDone ==
    /\ session = "running"
    /\ loadPc = "get"
    /\ \/ /\ loadPc' = "done"
          /\ savedStatus' = {}
          /\ Commit([Cur EXCEPT !.completed = TRUE])
          /\ UNCHANGED <<onDisk, store, saveInFlight, isMac, summaryVariant>>
       \/ /\ store # {}
          /\ loadPc' = "verify"
          /\ savedStatus' = store
          /\ UNCHANGED <<envVars, ctlVars, viewVars>>
    /\ recon' = recon
    /\ UNCHANGED <<finPc, session, callLive, foreign>>

\* get_onboarding_status returns: null or a failure end the load, a status
\* goes on to verifyModelStatus.
LoadGet ==
    /\ session = "running"
    /\ loadPc = "get"
    /\ \/ loadPc' = "done" /\ savedStatus' = {}
       \/ store # {} /\ loadPc' = "verify" /\ savedStatus' = store
    /\ recon' = recon
    /\ UNCHANGED <<envVars, ctlVars, viewVars, finPc, session, callLive,
                   foreign>>

\* A variant of a verification block whose catch leaves the resource
\* counted as present; C17 separates it from VerifyCall.
VerifyCallTrusting(ok, exists) == ~ok \/ exists

\* One verification block of verifyModelStatus: the result of the call, or
\* false from the catch block if it failed.
VerifyCall(ok, exists) == ok /\ exists

\* verifyModelStatus: the parakeet calls (parakeet_init,
\* parakeet_has_available_models) and the summary call
\* (builtin_ai_get_available_summary_model) each return (ok) or fail, and
\* loadOnboardingStatus adopts the corrected status.  The results are only
\* locals until the adoption, so the awaits between them add no state: a
\* result that went stale before the adoption is the result followed by
\* EnvRemove.
LoadVerify(okP, okS) ==
    /\ session = "running"
    /\ loadPc = "verify"
    /\ LET saved == CHOOSE s \in savedStatus : TRUE
           v == verifyModelStatus(saved, VerifyCall(okP, onDisk["parakeet"]),
                                  VerifyCall(okS, onDisk["summary"]))
       IN  Commit([Cur EXCEPT
                     !.step = v.currentStep,
                     !.completed = v.completed,
                     !.downloaded = [parakeet |-> v.parakeetDownloaded,
                                     summary |-> v.summaryModelDownloaded]])
    /\ loadPc' = "done"
    /\ savedStatus' = {}
    /\ recon' = {[parakeet |-> VerifyCall(okP, onDisk["parakeet"]),
                   summary |-> VerifyCall(okS, onDisk["summary"]),
                   parakeetFailed |-> ~okP, summaryFailed |-> ~okS]}
    /\ UNCHANGED <<onDisk, store, saveInFlight, isMac, summaryVariant, finPc,
                   session, callLive, foreign>>

\* ---------------------------------------------------------- navigation

GoToStep(n) ==
    /\ session = "running"
    /\ Commit([Cur EXCEPT !.step = goToStep(n)])
    /\ UNCHANGED <<onDisk, store, saveInFlight, isMac, summaryVariant,
                   loadVars, finPc, session, callLive, foreign>>

GoNext ==
    /\ session = "running"
    /\ Commit([Cur EXCEPT !.step = goNext(currentStep)])
    /\ UNCHANGED <<onDisk, store, saveInFlight, isMac, summaryVariant,
                   loadVars, finPc, session, callLive, foreign>>

\* The Continue button of a step view calls goNext.  The download step
\* views disable it unless status is 'downloaded'; CompletionStep has its
\* own button (handleDone).
ContinueEnabled ==
    /\ currentStep # COMPLETION_STEP
    /\ \A r \in Res : currentStep = StepOf(r) => tracker[r].status = "downloaded"

Continue ==
    /\ ContinueEnabled
    /\ GoNext

GoPrevious ==
    /\ session = "running"
    /\ Commit([Cur EXCEPT !.step = goPrevious(currentStep)])
    /\ UNCHANGED <<onDisk, store, saveInFlight, isMac, summaryVariant,
                   loadVars, finPc, session, callLive, foreign>>

\* ------------------------------------------------------------ auto-save

\* The debounce timer fires: saveOnboardingStatus sends the payload.
TimerFire ==
    /\ session # "reloaded"
    /\ saveTimer # {}
    /\ Cardinality(saveInFlight) < MaxInFlight
    /\ saveInFlight' = saveInFlight \cup saveTimer
    /\ saveTimer' = {}
    /\ UNCHANGED <<onDisk, store, bk, bprog, isMac, summaryVariant,
                   currentStep, completed, downloaded, progress,
                   selectedSummaryModel, subs, loadVars, viewVars, finPc,
                   session, callLive, foreign>>

\* The debounce timer fires while earlier save requests are still on their
\* way: saveOnboardingStatus sends the payload all the same.
TimerFireOverlap ==
    /\ session # "reloaded"
    /\ saveTimer # {}
    /\ saveInFlight # {}
    /\ Cardinality(saveInFlight) <= MaxInFlight
    /\ saveInFlight' = saveInFlight \cup saveTimer
    /\ saveTimer' = {}
    /\ UNCHANGED <<onDisk, store, bk, bprog, isMac, summaryVariant,
                   currentStep, completed, downloaded, progress,
                   selectedSummaryModel, subs, loadVars, viewVars, finPc,
                   session, callLive, foreign>>

\* The store writes a payload (a single atomic write).
SaveArrive(s) ==
    /\ s \in saveInFlight
    /\ store' = {s}
    /\ saveInFlight' = saveInFlight \ {s}
    /\ UNCHANGED <<onDisk, bk, bprog, isMac, summaryVariant, ctlVars,
                   loadVars, viewVars, finPc, session, callLive, foreign>>

\* save_onboarding_status_cmd fails: logged, nothing else.
SaveFail(s) ==
    /\ s \in saveInFlight
    /\ saveInFlight' = saveInFlight \ {s}
    /\ UNCHANGED <<onDisk, store, bk, bprog, isMac, summaryVariant, ctlVars,
                   loadVars, viewVars, finPc, session, callLive, foreign>>

\* -------------------------------------------------- download step views

\* The failure message of a backend call; it arrives as the message of an
\* Error object ("error_object") or as a plain value ("plain").
BackendMessage == "backend message"

\* errorMsg of a catch block: err.message of an Error object, else the
\* fallback text.
ErrorMsg(form, fallback) ==
    IF form = "error_object" THEN BackendMessage ELSE fallback

Outcomes == {"ok", "error_object", "plain"}

\* A variant of initializeStep that leaves an existing resource in 'ready'
\* (the state that starts a download); C6 separates it from
\* InitializeStepResult.
InitializeStepExistsReady(t, exists, outcome) ==
    IF outcome # "ok"
    THEN [t |-> [t EXCEPT !.initPc = "none", !.verified = "failed",
                          !.error = ErrorMsg(outcome, "Initialization failed"),
                          !.status = "error"],
          set |-> FALSE, dl |-> FALSE]
    ELSE [t |-> [t EXCEPT !.initPc = "none",
                          !.verified = IF exists THEN "ready" ELSE "missing",
                          !.verifiedNotReady = ~exists, !.status = "ready"],
          set |-> TRUE, dl |-> exists]

\* initializeStep after its verification calls returned or failed.
\* parakeet: parakeet_init, parakeet_has_available_models; summary:
\* builtin_ai_get_available_summary_model, builtin_ai_is_model_ready.
InitializeStepResult(t, exists, outcome) ==
    IF outcome # "ok"
    THEN [t |-> [t EXCEPT !.initPc = "none", !.verified = "failed",
                          !.error = ErrorMsg(outcome, "Initialization failed"),
                          !.status = "error"],
          set |-> FALSE, dl |-> FALSE]
    ELSE IF exists
    THEN [t |-> [t EXCEPT !.initPc = "none", !.verified = "ready",
                          !.status = "downloaded"],
          set |-> TRUE, dl |-> TRUE]
    ELSE [t |-> [t EXCEPT !.initPc = "none", !.verified = "missing",
                          !.verifiedNotReady = TRUE, !.status = "ready"],
          set |-> TRUE, dl |-> FALSE]

\* The summary view's initializeStep ends every branch of a verification
\* that returned with setSelectedSummaryModel (the existing or the
\* recommended model); the catch block does not.
SelectAfterVerify(r, returned, selected) ==
    IF r = "summary" /\ returned THEN summaryVariant ELSE selected

TrackerVerifyReturn(r, outcome) ==
    /\ session = "running"
    /\ tracker[r].initPc = "verify"
    /\ LET res == InitializeStepResult(tracker[r], onDisk[r], outcome)
       IN  Commit([Cur EXCEPT
                     !.tracker[r] = res.t,
                     !.downloaded[r] = IF res.set THEN res.dl ELSE @,
                     !.selected = SelectAfterVerify(r, res.set, @)])
    /\ UNCHANGED <<onDisk, store, saveInFlight, isMac, summaryVariant,
                   loadVars, finPc, session, callLive, foreign>>

\* History: the view learns after its negative or failed verification that
\* its resource is there.
ReadinessSignal(t) ==
    [t EXCEPT !.sawCompletion = IF t.verified \in {"missing", "failed"}
                                THEN TRUE ELSE @]

\* initializeStep of a view that is no longer mounted: its setStatus and
\* setVerifiedNotReady are lost, its setParakeetDownloaded /
\* setSummaryModelDownloaded reach the provider.
OrphanVerifyReturn(r, outcome) ==
    /\ session = "running"
    /\ orphan[r]
    /\ LET res == InitializeStepResult(Unmounted, onDisk[r], outcome)
       IN  Commit([Cur EXCEPT
                     !.orphan[r] = FALSE,
                     !.tracker[r] = IF res.set /\ res.dl
                                    THEN ReadinessSignal(@) ELSE @,
                     !.downloaded[r] = IF res.set THEN res.dl ELSE @,
                     !.selected = SelectAfterVerify(r, res.set, @)])
    /\ UNCHANGED <<onDisk, store, saveInFlight, isMac, summaryVariant,
                   loadVars, finPc, session, callLive, foreign>>

\* A variant of retryDownload that disengages the guard as well; C26
\* separates it from retryDownload.
retryDownloadResetGuard(t) ==
    [t EXCEPT !.retryCount = @ + 1, !.error = NoError, !.status = "ready",
              !.verifiedNotReady = FALSE]

\* retryDownload, offered by the view in its error state.
retryDownload(t) ==
    [t EXCEPT !.retryCount = @ + 1, !.error = NoError, !.status = "ready"]

RetryDownload(r) ==
    /\ session = "running"
    /\ currentStep = StepOf(r)
    /\ tracker[r].status = "error"
    /\ tracker[r].retryCount < MaxRetry
    /\ Commit([Cur EXCEPT !.tracker[r] = retryDownload(tracker[r])])
    /\ UNCHANGED <<onDisk, store, saveInFlight, isMac, summaryVariant,
                   loadVars, finPc, session, callLive, foreign>>

\* --------------------------------------------- download progress events

\* A progress event is terminal when status === 'completed' or
\* progress >= 100.
Terminal(p, st) == st = "completed" \/ p >= FULL_PROGRESS

\* The progress listeners of OnboardingProvider
\* ('parakeet-model-download-progress', 'builtin-ai-download-progress').
ProgressListener(u, r, p, st) ==
    [u EXCEPT !.progress[r] = p,
              !.downloaded[r] = IF Terminal(p, st) THEN TRUE ELSE @]

\* The 'parakeet-model-download-complete' listener.
CompleteListener(u, r) ==
    [u EXCEPT !.downloaded[r] = TRUE, !.progress[r] = FULL_PROGRESS]

\* The download call of the view returns; a terminal event after the view's
\* negative or failed verification is noted in its history.
DownloadReturn(t) == [ReadinessSignal(t) EXCEPT !.dlCall = FALSE]

\* The running download of r emits a progress event; within one download
\* the values do not decrease.  A terminal event ends the download: the
\* resource is on disk and the download call returns.
ProgressEvent(r, p, st) ==
    /\ session = "running"
    /\ bk[r] = "active"
    /\ p >= bprog[r]
    /\ LET term == Terminal(p, st)
           u == [Cur EXCEPT !.bk[r] = IF term THEN "idle" ELSE @,
                            !.bprog[r] = IF term THEN 0 ELSE p,
                            !.tracker[r] = IF term THEN DownloadReturn(@) ELSE @]
       IN  /\ Commit(IF Listening(ProgressStream(r))
                     THEN ProgressListener(u, r, p, st)
                     ELSE u)
           /\ onDisk' = IF term THEN [onDisk EXCEPT ![r] = TRUE] ELSE onDisk
    /\ UNCHANGED <<store, saveInFlight, isMac, summaryVariant, loadVars,
                   finPc, session, callLive, foreign>>

\* The transcription download ends with the download-complete event.
CompleteEvent ==
    /\ session = "running"
    /\ bk["parakeet"] = "active"
    /\ LET u == [Cur EXCEPT !.bk["parakeet"] = "idle",
                            !.bprog["parakeet"] = 0,
                            !.tracker["parakeet"] = DownloadReturn(@)]
       IN  Commit(IF Listening(PARAKEET_COMPLETE)
                  THEN CompleteListener(u, "parakeet")
                  ELSE u)
    /\ onDisk' = [onDisk EXCEPT !["parakeet"] = TRUE]
    /\ UNCHANGED <<store, saveInFlight, isMac, summaryVariant, loadVars,
                   finPc, session, callLive, foreign>>

\* The download-complete event is delivered while progress events of the
\* same download are still on their way: only the listener runs.
CompleteEventEarly ==
    /\ session = "running"
    /\ bk["parakeet"] = "active"
    /\ Commit(IF Listening(PARAKEET_COMPLETE)
              THEN CompleteListener(Cur, "parakeet")
              ELSE Cur)
    /\ onDisk' = [onDisk EXCEPT !["parakeet"] = TRUE]
    /\ UNCHANGED <<store, saveInFlight, isMac, summaryVariant, loadVars,
                   finPc, session, callLive, foreign>>

\* The test a listener makes on the model identifier of an event: the
\* parakeet listeners compare with PARAKEET_MODEL, the summary listener
\* with the selected model and with the two model names.
ListenerAccepts(r, id, selected) ==
    IF r = "parakeet" THEN id = PARAKEET_MODEL
    ELSE id = selected \/ id = GEMMA \/ id = MISTRAL

\* The identifier a stream's events are tracked by.
TrackedId(r) ==
    IF r = "parakeet" THEN PARAKEET_MODEL ELSE selectedSummaryModel

\* A progress event arrives on the stream of r with a model identifier
\* that is not the tracked one (some other download of the application):
\* the listener runs its test and, if it passes, its updates.
ForeignEvent(r, id, p, st) ==
    /\ session = "running"
    /\ id # TrackedId(r)
    /\ Commit(IF \E s \in subs : /\ s.stream = ProgressStream(r)
                                  /\ s.reg = "registered"
                                  /\ ListenerAccepts(r, id, s.selected)
              THEN ProgressListener(Cur, r, p, st)
              ELSE Cur)
    /\ foreign' = [stream |-> r, id |-> id, flip |-> ~foreign.flip]
    /\ UNCHANGED <<onDisk, store, saveInFlight, isMac, summaryVariant,
                   loadVars, finPc, session, callLive>>

\* downloadParakeet / downloadSummaryModel: the catch block of the view
\* that issued the download call.
DownloadCatch(t, form) ==
    IF t.dlCall
    THEN [t EXCEPT !.dlCall = FALSE,
                   !.error = ErrorMsg(form, "Download failed"),
                   !.status = "error"]
    ELSE t

\* The running download fails: the error listener only logs, the download
\* call of the mounted view throws.
DownloadFail(r, form) ==
    /\ session = "running"
    /\ bk[r] = "active"
    /\ Commit([Cur EXCEPT !.bk[r] = "idle",
                          !.bprog[r] = 0,
                          !.tracker[r] = DownloadCatch(@, form)])
    /\ UNCHANGED <<onDisk, store, saveInFlight, isMac, summaryVariant,
                   loadVars, finPc, session, callLive, foreign>>

\* --------------------------------------------------------- CompletionStep

\* 'ready' | 'missing' from a verification call that returned ok or failed.
VerificationStatus(ok, exists) == IF ok /\ exists THEN "ready" ELSE "missing"

\* verifyModels: the parakeet calls and the summary call each return (ok)
\* or fail; setVerification, and the error text when a model is missing.
\* Both results are locals until setVerification.
CompletionVerify(okP, okS) ==
    /\ session = "running"
    /\ completion.verifyPc = "verify"
    /\ LET pk == VerificationStatus(okP, onDisk["parakeet"])
           sm == VerificationStatus(okS, onDisk["summary"])
       IN  completion' = [completion EXCEPT
                            !.parakeet = pk,
                            !.summary = sm,
                            !.verifyPc = "none",
                            !.completionError =
                                IF pk = "missing" \/ sm = "missing"
                                THEN "Some models are missing. Please go back and complete the download steps."
                                ELSE @]
    /\ UNCHANGED <<envVars, ctlVars, loadVars, tracker, orphan, finPc,
                   session, callLive, foreign>>

\* A variant of handleDone's guard that tests the transcription resource
\* only; C12 separates it from AllReady.
AllReadyParakeetOnly(c) == c.parakeet = "ready"

\* handleDone's guard on the mount-time verification.
AllReady(c) == c.parakeet = "ready" /\ c.summary = "ready"

\* handleDone: refuses when the verification is not 'ready' for both; on
\* macOS goes to the next step; otherwise calls completeOnboarding, which
\* invokes complete_onboarding.
HandleDone ==
    /\ session = "running"
    /\ currentStep = COMPLETION_STEP
    /\ ~completion.isCompleting
    /\ IF ~AllReady(completion)
       THEN /\ completion' =
                [completion EXCEPT
                   !.lastRequest = "refused",
                   !.completionError =
                       "Cannot complete setup - required models are missing."]
            /\ UNCHANGED <<envVars, ctlVars, loadVars, tracker, orphan, finPc,
                           session, callLive, foreign>>
       ELSE IF isMac
       THEN /\ Commit([Cur EXCEPT !.step = goNext(currentStep)])
            /\ UNCHANGED <<onDisk, store, saveInFlight, isMac, summaryVariant,
                           loadVars, finPc, session, callLive, foreign>>
       ELSE /\ completion' = [completion EXCEPT !.isCompleting = TRUE,
                                                !.completionError = NoError,
                                                !.thrown = NoError,
                                                !.caught = NoError,
                                                !.lastRequest = "invoked"]
            /\ finPc' = "pending"
            /\ callLive' = (onDisk["parakeet"] /\ onDisk["summary"])
            /\ UNCHANGED <<envVars, ctlVars, loadVars, tracker, orphan,
                           session, foreign>>

\* A variant of handleGoBack that only navigates; C25 separates it from
\* handleGoBack.
handleGoBackStepOnly(u, r) == [u EXCEPT !.step = goToStep(StepOf(r))]

\* handleGoBack(step): setParakeetDownloaded(false) for step 3,
\* setSummaryModelDownloaded(false) for step 4, then goToStep(step); both
\* updates are rendered together.
handleGoBack(u, r) ==
    [u EXCEPT !.downloaded[r] = FALSE, !.step = goToStep(StepOf(r))]

\* The Fix button, shown for a 'missing' item, calls handleGoBack.
HandleGoBack(r) ==
    /\ session = "running"
    /\ currentStep = COMPLETION_STEP
    /\ completion[r] = "missing"
    /\ Commit(handleGoBack(Cur, r))
    /\ UNCHANGED <<onDisk, store, saveInFlight, isMac, summaryVariant,
                   loadVars, finPc, session, callLive, foreign>>

\* complete_onboarding in the backend: the completion is recorded in the
\* persisted status.
FinalizeBackend ==
    /\ finPc = "pending"
    /\ finPc' = "recorded"
    /\ store' = IF store = {}
                THEN {SavePayload(currentStep, TRUE, downloaded)}
                ELSE {[s EXCEPT !.completed = TRUE] : s \in store}
    /\ UNCHANGED <<onDisk, saveInFlight, bk, bprog, isMac, summaryVariant,
                   ctlVars, loadVars, viewVars, session, callLive, foreign>>

\* completeOnboarding after its invoke returned: setCompleted(true); then
\* handleDone reloads the window.
FinalizeResolve ==
    /\ session = "running"
    /\ finPc = "recorded"
    /\ Commit([Cur EXCEPT !.completed = TRUE])
    /\ finPc' = "done"
    /\ session' = "reloaded"
    /\ UNCHANGED <<onDisk, store, saveInFlight, isMac, summaryVariant,
                   loadVars, callLive, foreign>>

\* A variant of completeOnboarding's catch block that throws a message of
\* its own instead of the error it caught; C11 separates it from
\* completeOnboardingCatch.
completeOnboardingRewrap(comp, err) == [completed |-> comp, rethrown |-> "plain"]

\* The catch block of completeOnboarding: logs, leaves completed alone and
\* rethrows the error it caught.
completeOnboardingCatch(comp, err) == [completed |-> comp, rethrown |-> err]

\* complete_onboarding fails: completeOnboarding rethrows, handleDone (if
\* its view is still mounted) shows the error and re-enables the button.
FinalizeFail(form) ==
    /\ session = "running"
    /\ finPc = "pending"
    /\ LET c == completeOnboardingCatch(completed, form)
           shown == [completion EXCEPT
                       !.isCompleting = FALSE,
                       !.thrown = form,
                       !.caught = c.rethrown,
                       !.completionError =
                           ErrorMsg(c.rethrown,
                               "Failed to save configuration. Please try again.")]
       IN  Commit([Cur EXCEPT
                     !.completed = c.completed,
                     !.completion = IF currentStep = COMPLETION_STEP
                                    THEN shown ELSE @])
    /\ finPc' = "none"
    /\ UNCHANGED <<onDisk, store, saveInFlight, isMac, summaryVariant,
                   loadVars, session, callLive, foreign>>

\* ------------------------------------------------------------ environment

\* A resource on disk becomes unavailable (removed or damaged).
EnvRemove(r) ==
    /\ onDisk[r]
    /\ onDisk' = [onDisk EXCEPT ![r] = FALSE]
    /\ UNCHANGED <<store, saveInFlight, bk, bprog, isMac, summaryVariant,
                   ctlVars, loadVars, viewVars, finPc, session, callLive,
                   foreign>>

\* ------------------------------------------------------------- teardown

\* The registration of a listener settles: listen() resolves with the
\* unlisten function, or rejects (nothing in the provider catches it).
Register(s, ok) ==
    /\ session # "reloaded"
    /\ s \in subs
    /\ s.reg = "pending"
    /\ subs' = (subs \ {s})
                 \cup {[s EXCEPT !.reg = IF ok THEN "registered" ELSE "rejected"]}
    /\ UNCHANGED <<envVars, currentStep, completed, downloaded, progress,
                   selectedSummaryModel, saveTimer, loadVars, viewVars, finPc,
                   session, callLive, foreign>>

\* The unlisten function of a subscription whose effect was cleaned up
\* runs (the callback of unlisten.then).
Release(s) ==
    /\ session # "reloaded"
    /\ s \in subs
    /\ s.reg = "registered"
    /\ s.cleanupAt # "none"
    /\ subs' = (subs \ {s}) \cup {[s EXCEPT !.reg = "released"]}
    /\ UNCHANGED <<envVars, currentStep, completed, downloaded, progress,
                   selectedSummaryModel, saveTimer, loadVars, viewVars, finPc,
                   session, callLive, foreign>>

\* OnboardingProvider leaves the tree: the cleanups of its effects run (the
\* auto-save effect's, the two listener effects'), its views go with it;
\* the calls they await stay on their way.
Teardown ==
    /\ session = "running"
    /\ session' = "unmounted"
    /\ saveTimer' = clearTimeout(saveTimer)
    /\ subs' = {IF s \in LastRun(subs) THEN Unlisten(s) ELSE s : s \in subs}
    /\ tracker' = [r \in Res |-> Unmounted]
    /\ orphan' = [r \in Res |-> orphan[r] \/ tracker[r].initPc = "verify"]
    /\ completion' = NoCompletion
    /\ UNCHANGED <<envVars, currentStep, completed, downloaded, progress,
                   selectedSummaryModel, loadVars, finPc, callLive, foreign>>

\* A running download emits a progress event after the provider left the
\* tree.  A handler still registered runs, and its state setters address a
\* component that is not mounted: nothing is updated, no effect runs.
EventAfterTeardown(r, p, st) ==
    /\ session = "unmounted"
    /\ bk[r] = "active"
    /\ p >= bprog[r]
    /\ LET term == Terminal(p, st)
       IN  /\ bk' = [bk EXCEPT ![r] = IF term THEN "idle" ELSE @]
           /\ bprog' = [bprog EXCEPT ![r] = IF term THEN 0 ELSE p]
           /\ onDisk' = IF term THEN [onDisk EXCEPT ![r] = TRUE] ELSE onDisk
    /\ UNCHANGED <<store, saveInFlight, isMac, summaryVariant, ctlVars,
                   loadVars, viewVars, finPc, session, callLive, foreign>>

\* ------------------------------------------------------------------- Next

LoadNext ==
    \/ LoadGet
    \/ \E okP \in BOOLEAN, okS \in BOOLEAN : LoadVerify(okP, okS)

NavNext ==
    \/ \E n \in StepArgs : GoToStep(n)
    \/ GoNext
    \/ GoPrevious

SaveNext ==
    \/ TimerFire
    \/ \E s \in saveInFlight : SaveArrive(s)
    \/ \E s \in saveInFlight : SaveFail(s)

TrackerNext ==
    \/ \E r \in Res, o \in Outcomes : TrackerVerifyReturn(r, o)
    \/ \E r \in Res, o \in Outcomes : OrphanVerifyReturn(r, o)
    \/ \E r \in Res : RetryDownload(r)

EventNext ==
    \/ \E r \in Res, p \in EventProgress, st \in {"downloading", "completed"} :
          ProgressEvent(r, p, st)
    \/ CompleteEvent
    \/ \E r \in Res, f \in {"error_object", "plain"} : DownloadFail(r, f)

CompletionNext ==
    \/ \E okP \in BOOLEAN, okS \in BOOLEAN : CompletionVerify(okP, okS)
    \/ HandleDone
    \/ \E r \in Res : HandleGoBack(r)
    \/ FinalizeBackend
    \/ FinalizeResolve
    \/ \E f \in {"error_object", "plain"} : FinalizeFail(f)

StreamNext == CompleteEventEarly

OverlapNext == TimerFireOverlap

ForeignNext ==
    \E r \in Res, p \in EventProgress, st \in {"downloading", "completed"} :
        \E id \in EventIds(r) : ForeignEvent(r, id, p, st)

EnvNext == \E r \in Res : EnvRemove(r)

SubscriptionNext ==
    \/ \E s \in subs, ok \in BOOLEAN : Register(s, ok)
    \/ \E s \in subs : Release(s)

TeardownNext ==
    \/ Teardown
    \/ \E r \in Res, p \in EventProgress, st \in {"downloading", "completed"} :
          EventAfterTeardown(r, p, st)

Next ==
    \/ LoadNext
    \/ NavNext
    \/ SaveNext
    \/ TrackerNext
    \/ EventNext
    \/ StreamNext
    \/ ForeignNext
    \/ OverlapNext
    \/ CompletionNext
    \/ EnvNext
    \/ SubscriptionNext
    \/ TeardownNext

\* The whole program.
Spec == Init /\ [][Next]_vars

\* Startup and navigation: the controller loads and reconciles any persisted
\* record while the three navigation operations are called with any
\* argument.  The views only mount and unmount.
InitStartup == \E st \in Stores : Mounted(st, FALSE, "get", GEMMA)

NextStartup == LoadNext \/ NavNext

SpecStartup == InitStartup /\ [][NextStartup]_vars

\* Persistence and finalization: load, debounced save, the store, the
\* completion view and completeOnboarding.  The persisted records carry
\* the labels of a finished setup (no code reads them); the download step
\* views mount and unmount without progress, so the steps behind them are
\* reached by adopting a persisted step.
FinishedRecords ==
    {s \in PersistedRecords : s.parakeet = "downloaded" /\ s.summary = "downloaded"}

InitPersist ==
    \E st \in {{}} \cup {{s} : s \in FinishedRecords}, mac \in BOOLEAN :
        Mounted(st, mac, "get", GEMMA)

NextPersist ==
    \/ LoadNext
    \/ Continue
    \/ GoPrevious
    \/ SaveNext
    \/ CompletionNext
    \/ EnvNext

SpecPersist == InitPersist /\ [][NextPersist]_vars

\* The download step views on a fresh install: get_onboarding_status has
\* returned null, so nothing is adopted and nothing of the store is read.
\* The user moves with the views' own buttons (Continue, Fix) and goPrevious.
InitTrack == Mounted({}, FALSE, "done", GEMMA)

NextTrack ==
    \/ Continue
    \/ GoPrevious
    \/ TrackerNext
    \/ EventNext
    \/ \E okP \in BOOLEAN, okS \in BOOLEAN : CompletionVerify(okP, okS)
    \/ \E r \in Res : HandleGoBack(r)
    \/ EnvNext

SpecTrack == InitTrack /\ [][NextTrack]_vars

\* The download event streams on a fresh install: the download step views
\* and the listeners of the provider, the download-complete event in any
\* position among the progress events.
NextEvents ==
    \/ Continue
    \/ GoPrevious
    \/ TrackerNext
    \/ EventNext
    \/ StreamNext

SpecEvents == InitTrack /\ [][NextEvents]_vars

\* The event streams with events of other models among them, on a machine
\* with either summary variant; the user goes forward only.
InitStreams == \E v \in SummaryVariants : Mounted({}, FALSE, "done", v)

NextStreams ==
    \/ Continue
    \/ \E r \in Res, o \in Outcomes : TrackerVerifyReturn(r, o)
    \/ \E r \in Res : RetryDownload(r)
    \/ EventNext
    \/ ForeignNext

SpecStreams == InitStreams /\ [][NextStreams]_vars

\* The debounced save on a fresh install while onboarding is not completed:
\* goNext and the verifications of the download step views change the
\* saved values, the timer fires also while a save is on its
\* way, and the store answers in any order.
NextSave ==
    \/ GoNext
    \/ \E r \in Res, o \in Outcomes : TrackerVerifyReturn(r, o)
    \/ SaveNext
    \/ OverlapNext

SpecSave == InitTrack /\ [][NextSave]_vars

\* The way through the wizard on a fresh install whose resources may
\* already be on disk: the verifications of the download step views, the
\* completion view and completeOnboarding (non-macOS).  No download makes
\* progress and the store is not read.
NextFinalize ==
    \/ Continue
    \/ GoPrevious
    \/ \E r \in Res, o \in Outcomes : TrackerVerifyReturn(r, o)
    \/ \E r \in Res, o \in Outcomes : OrphanVerifyReturn(r, o)
    \/ \E okP \in BOOLEAN, okS \in BOOLEAN : CompletionVerify(okP, okS)
    \/ \E r \in Res : HandleGoBack(r)
    \/ EnvNext
    \/ HandleDone
    \/ FinalizeBackend
    \/ FinalizeResolve
    \/ \E f \in {"error_object", "plain"} : FinalizeFail(f)

SpecFinalize == InitTrack /\ [][NextFinalize]_vars

\* The wizard on a fresh install for a user who goes forward with Continue
\* and back only with the Fix buttons of the completion view: every step
\* from the completion view to a download step is a handleGoBack.
NextFix ==
    \/ Continue
    \/ \E r \in Res, o \in Outcomes : TrackerVerifyReturn(r, o)
    \/ \E r \in Res : RetryDownload(r)
    \/ EventNext
    \/ \E okP \in BOOLEAN, okS \in BOOLEAN : CompletionVerify(okP, okS)
    \/ \E r \in Res : HandleGoBack(r)
    \/ EnvNext

SpecFix == InitTrack /\ [][NextFix]_vars

\* ============================================================ properties

\* Teardown: on a machine that recommends the other summary variant, with
\* the registration of the summary listener still pending, the user goes
\* forward through the download steps, the registrations settle at any
\* moment, and the provider leaves the tree at any moment.  The event loop
\* runs every settled promise's callbacks: the registrations and the
\* unlisten calls are not postponed forever.
InitTeardown ==
    /\ MountedWith({}, FALSE, "done", MISTRAL,
                   Subscribed("registered", "pending"))
    /\ onDisk["parakeet"]

NextTeardown ==
    \/ Continue
    \/ \E r \in Res : TrackerVerifyReturn(r, "ok")
    \/ \E r \in Res, p \in EventProgress : ProgressEvent(r, p, "downloading")
    \/ TimerFire
    \/ SubscriptionNext
    \/ TeardownNext

SpecTeardown ==
    InitTeardown /\ [][NextTeardown]_vars /\ WF_vars(SubscriptionNext)


\* The step a navigation operation or an adoption leaves must lie here.
StepRange == MIN_STEP..MAX_STEP

\* The tracker view of r is mounted.
TrackerMounted(r) == currentStep = StepOf(r)

\* The tracker of r verified its resource missing and no terminal download
\* event of r has arrived since.
MissingUncompleted(r) ==
    /\ TrackerMounted(r)
    /\ tracker[r].verified = "missing"
    /\ ~tracker[r].sawCompletion

\* C1: completeOnboarding sets completed = true only if both resources
\* were live (present and usable) at the time it was called, whatever the
\* environment removed since the completion view's last verification.
C1_CompletedOnlyWhenLive == (finPc = "done") => callLive

\* C2: startup reconciliation, rules 1 and 2, at the adoption step: a saved
\* step beyond the transcription step with the transcription resource not
\* verified gives (PARAKEET_STEP, not completed); otherwise a saved step
\* beyond the summary step with the summary resource not verified gives
\* (SUMMARY_STEP, not completed).
C2_StepRules ==
    [][(loadPc = "verify" /\ loadPc' = "done") =>
         LET saved == CHOOSE s \in savedStatus : TRUE
             v == CHOOSE x \in recon' : TRUE
             rule1 == saved.current_step > PARAKEET_STEP /\ ~v.parakeet
             rule2 == saved.current_step > SUMMARY_STEP /\ ~v.summary
         IN  /\ rule1 => (currentStep' = PARAKEET_STEP /\ ~completed')
             /\ (~rule1 /\ rule2) =>
                    (currentStep' = SUMMARY_STEP /\ ~completed')]_vars

\* C2 witness: a record (5, completed) was adopted with the transcription
\* resource not verified, and the controller is at (3, not completed).
C2_Witness ==
    /\ loadPc = "done"
    /\ \E s \in store : s.current_step = COMPLETION_STEP /\ s.completed
    /\ \E v \in recon : ~v.parakeet
    /\ currentStep = PARAKEET_STEP
    /\ ~completed
    /\ ~downloaded["parakeet"]

\* C3: startup reconciliation, rule 3, at the adoption step: when rules 1
\* and 2 do not apply and the saved status is completed while a resource is
\* not verified, completed becomes false and the step becomes the
\* transcription step if that resource is missing, else the summary step.
C3_CompletedRule ==
    [][(loadPc = "verify" /\ loadPc' = "done") =>
         LET saved == CHOOSE s \in savedStatus : TRUE
             v == CHOOSE x \in recon' : TRUE
             rule1 == saved.current_step > PARAKEET_STEP /\ ~v.parakeet
             rule2 == saved.current_step > SUMMARY_STEP /\ ~v.summary
         IN  (~rule1 /\ ~rule2 /\ saved.completed
                     /\ (~v.parakeet \/ ~v.summary)) =>
                /\ ~completed'
                /\ currentStep' = IF ~v.parakeet THEN PARAKEET_STEP
                                  ELSE SUMMARY_STEP]_vars

\* C3 witness: a completed record at step 1 was adopted with both
\* resources not verified; the controller is at (3, not completed).
C3_Witness ==
    /\ loadPc = "done"
    /\ \E s \in store : s.current_step = MIN_STEP /\ s.completed
    /\ \E v \in recon : ~v.parakeet /\ ~v.summary
    /\ currentStep = PARAKEET_STEP
    /\ ~completed

\* C4: from a tracker's negative verification until a terminal download
\* event of its resource, the guard verifiedNotReady stays engaged and the
\* tracker does not display its resource as ready.
C4_GuardUntilCompletion ==
    \A r \in Res :
        MissingUncompleted(r) =>
            tracker[r].verifiedNotReady /\ tracker[r].status # "downloaded"

\* C5: a tracker that verified its resource missing neither reports
\* Downloaded nor leaves the shared downloaded flag true before a terminal
\* download event of that resource arrives after the verification.
C5_NoDownloadedBeforeCompletion ==
    \A r \in Res :
        MissingUncompleted(r) =>
            ~(tracker[r].status = "downloaded" \/ downloaded[r])

\* C6: a tracker whose verification reported ready is Downloaded with the
\* shared flag true right after the verification, and as long as it is
\* mounted it has not issued a download call nor is it ReadyToDownload.
C6_ReadyWithoutDownload ==
    [][\A r \in Res :
         /\ tracker'[r].verified = "ready" =>
                ~tracker'[r].triggered /\ tracker'[r].status # "ready"
         /\ (tracker[r].verified # "ready" /\ tracker'[r].verified = "ready") =>
                tracker'[r].status = "downloaded" /\ downloaded'[r]]_vars

\* C6 witness: both views verified ready in turn: the summary view shows
\* Downloaded after its verification, no download ever ran.
C6_Witness ==
    /\ tracker["summary"].verified = "ready"
    /\ tracker["summary"].status = "downloaded"
    /\ \A r \in Res : downloaded[r] /\ progress[r] = 0 /\ bk[r] = "idle"

\* C7: once completed is true no debounce timer is pending (a pending one
\* was cancelled, later dependency changes start none), and no save
\* request is issued in a state with completed = true.
C7_NoSaveOnceCompleted ==
    [][/\ completed' => saveTimer' = {}
       /\ completed => saveInFlight' \subseteq saveInFlight]_vars

\* C7 witness: a completed status was adopted at startup and the shared
\* flags changed afterwards (Fix on the completion view), with no timer.
C7_Witness ==
    /\ completed
    /\ session = "running"
    /\ \E r \in Res : ~downloaded[r]
    /\ saveTimer = {}

\* C8: a stored record with completed = true is replaced by one with
\* completed = false only if startup reconciliation found a resource not
\* verified-ready, and never after completeOnboarding recorded completion.
C8_CompletionNotClobbered ==
    [][((\E s \in store : s.completed) /\ (\E s \in store' : ~s.completed)) =>
          /\ finPc \notin {"recorded", "done"}
          /\ \E v \in recon : ~v.parakeet \/ ~v.summary]_vars

\* C9: after goToStep, goNext or goPrevious (the steps that leave the load
\* where it is), currentStep is in [1, 6].
C9_NavigationInRange ==
    [][(UNCHANGED loadVars) => currentStep' \in StepRange]_vars

\* C10: currentStep is in [1, 6] in every reachable state.
C10_StepInRange == currentStep \in StepRange

\* C11: when complete_onboarding fails, completeOnboarding changes no
\* controller state (completed keeps its value) and its caller receives the
\* very error that was thrown, and can ask again.
C11_FailurePropagates ==
    [][(finPc = "pending" /\ finPc' = "none") =>
          /\ UNCHANGED ctlVars
          /\ currentStep = COMPLETION_STEP =>
                /\ completion'.thrown # NoError
                /\ completion'.caught = completion'.thrown
                /\ ~completion'.isCompleting]_vars

\* C11 witness: the call failed with an error object; the view shows its
\* message, completed is still false and Done can be clicked again.
C11_Witness ==
    /\ finPc = "none"
    /\ currentStep = COMPLETION_STEP
    /\ completion.thrown = "error_object"
    /\ completion.caught = "error_object"
    /\ completion.completionError = "backend message"
    /\ ~completion.isCompleting
    /\ ~completed

\* C12: a click on Done while a resource is not verified ready, or while
\* the verification is still running, is answered with the descriptive
\* error; complete_onboarding is not invoked and neither completed nor the
\* store changes.
C12_RefusedWhenNotReady ==
    [][(/\ currentStep = COMPLETION_STEP
        /\ currentStep' = COMPLETION_STEP
        /\ completion.parakeet # "ready" \/ completion.summary # "ready"
        /\ completion'.lastRequest # completion.lastRequest) =>
          /\ completion'.lastRequest = "refused"
          /\ completion'.completionError =
                 "Cannot complete setup - required models are missing."
          /\ finPc' = finPc
          /\ completed' = completed
          /\ store' = store]_vars

\* C12 witness: Done was clicked while verifyModels was still running; the
\* error is shown, nothing was invoked, completed is false.
C12_Witness ==
    /\ currentStep = COMPLETION_STEP
    /\ completion.verifyPc = "verify"
    /\ completion.lastRequest = "refused"
    /\ completion.completionError =
           "Cannot complete setup - required models are missing."
    /\ finPc = "none"
    /\ ~completed

\* C13: whenever completed goes from false to true, both shared downloaded
\* flags are true in the state reached.
C13_CompletedImpliesDownloaded ==
    [][(~completed /\ completed') =>
          (downloaded'["parakeet"] /\ downloaded'["summary"])]_vars

\* C14: the exposed progress of a resource decreases only with the first
\* event of a newly started download (the first after a new Checking
\* cycle); within a download, whose progress events do not decrease, the
\* exposed value never goes down, wherever the download-complete event arrives.
C14_ProgressMonotone ==
    [][\A r \in Res : progress'[r] < progress[r] => bprog[r] = 0]_vars

\* C15: a view that mounts while the shared progress p of its resource is
\* in flight (0 < p < 100) goes to Downloading without a verification call
\* (the sync effect moves it on to Downloaded only if the shared flag is
\* already true), p is unchanged by the mount, and as long as it has made
\* no verification it issues no download call.
C15_InFlightResume ==
    [][\A r \in Res :
         /\ (/\ currentStep # StepOf(r)
             /\ currentStep' = StepOf(r)
             /\ progress[r] > 0
             /\ progress[r] < FULL_PROGRESS) =>
                /\ ~downloaded[r] => tracker'[r].status = "downloading"
                /\ tracker'[r].status \in {"downloading", "downloaded"}
                /\ tracker'[r].initPc = "none"
                /\ tracker'[r].verified = "none"
                /\ progress'[r] = progress[r]
         /\ (/\ currentStep' = StepOf(r)
             /\ tracker'[r].initPc = "none"
             /\ tracker'[r].verified = "none") =>
                ~tracker'[r].triggered /\ ~tracker'[r].dlCall]_vars

\* C15 witness: the transcription view was mounted again during a download
\* at 42 %: it shows Downloading at 42 and has called nothing.
C15_Witness ==
    /\ currentStep = PARAKEET_STEP
    /\ tracker["parakeet"].status = "downloading"
    /\ tracker["parakeet"].verified = "none"
    /\ tracker["parakeet"].initPc = "none"
    /\ ~tracker["parakeet"].triggered
    /\ progress["parakeet"] = PartialProgress
    /\ bk["parakeet"] = "active"
    /\ ~downloaded["parakeet"]

\* C16: a tracker whose own verification call failed does not show
\* Downloaded before a terminal download event of its resource or a
\* positive verification arrives after the failure.
C16_FailedVerificationNotReady ==
    \A r \in Res :
        (/\ TrackerMounted(r)
         /\ tracker[r].verified = "failed"
         /\ ~tracker[r].sawCompletion) => tracker[r].status # "downloaded"

\* C17: at the adoption step a failed verification call counts as a
\* missing resource: the adopted state is the corrective policy applied to
\* false for a resource whose call failed and to the presence on disk for
\* one whose call returned, each resource for itself, and each adopted
\* downloaded flag is that value.
C17_FailureIsNotReady ==
    [][(loadPc = "verify" /\ loadPc' = "done") =>
         LET saved == CHOOSE s \in savedStatus : TRUE
             v == CHOOSE x \in recon' : TRUE
             pk == IF v.parakeetFailed THEN FALSE ELSE onDisk["parakeet"]
             sm == IF v.summaryFailed THEN FALSE ELSE onDisk["summary"]
             want == verifyModelStatus(saved, pk, sm)
         IN  /\ v.parakeet = pk
             /\ v.summary = sm
             /\ currentStep' = want.currentStep
             /\ completed' = want.completed
             /\ downloaded' = [parakeet |-> pk, summary |-> sm]]_vars

\* C17 witness: a completed record at step 5 was adopted; the transcription
\* call failed although the resource is on disk, the summary call returned
\* ready: the controller is at (3, not completed) with flags (false, true).
C17_Witness ==
    /\ loadPc = "done"
    /\ \E s \in store : s.current_step = COMPLETION_STEP /\ s.completed
    /\ \E v \in recon : v.parakeetFailed /\ ~v.summaryFailed /\ v.summary
    /\ onDisk["parakeet"]
    /\ currentStep = PARAKEET_STEP
    /\ ~completed
    /\ downloaded = [parakeet |-> FALSE, summary |-> TRUE]

\* C18: a load that ends without a status (none stored, or the call
\* failed) changes nothing of the controller's state and the session goes
\* on; and as long as nothing was adopted, completed is true only after
\* completeOnboarding has run.
C18_DefaultsWithoutStatus ==
    [][/\ (loadPc = "get" /\ loadPc' = "done") =>
             UNCHANGED ctlVars /\ session' = "running"
       /\ (recon' = {} /\ completed') => finPc' = "done"]_vars

\* C18 witness: loading failed although a completed record is stored; the
\* controller is at its defaults and the session runs.
C18_Witness ==
    /\ loadPc = "done"
    /\ recon = {}
    /\ \E s \in store : s.completed
    /\ currentStep = MIN_STEP
    /\ ~completed
    /\ downloaded = NoneDownloaded
    /\ session = "running"

\* C19: when the download call of a mounted view fails (its call ends and
\* the resource is not downloaded), the view is in Error and its error is
\* the failure message of the backend, whatever the form of the failure.
C19_DownloadErrorVerbatim ==
    [][\A r \in Res :
         (/\ tracker[r].dlCall
          /\ ~tracker'[r].dlCall
          /\ currentStep' = StepOf(r)
          /\ ~downloaded'[r]) =>
             /\ tracker'[r].status = "error"
             /\ tracker'[r].error = BackendMessage]_vars

\* C20: the state adopted at startup is the one every record with the
\* same current_step and completed but any other model_status would give
\* under the same verification results.
C20_ModelStatusIgnored ==
    [][(loadPc = "verify" /\ loadPc' = "done") =>
         LET saved == CHOOSE s \in savedStatus : TRUE
             v == CHOOSE x \in recon' : TRUE
         IN  \A other \in PersistedRecords :
                (/\ other.current_step = saved.current_step
                 /\ other.completed = saved.completed) =>
                   LET w == verifyModelStatus(other, v.parakeet, v.summary)
                   IN  /\ currentStep' = w.currentStep
                       /\ completed' = w.completed
                       /\ downloaded' =
                              [parakeet |-> w.parakeetDownloaded,
                               summary |-> w.summaryModelDownloaded]]_vars

\* C20 witness: a completed record at step 5 whose model_status says
\* 'downloaded' for both was adopted with the transcription resource not
\* verified: the controller is at (3, not completed), its flag false.
C20_Witness ==
    /\ loadPc = "done"
    /\ \E s \in store : /\ s.current_step = COMPLETION_STEP
                        /\ s.completed
                        /\ s.parakeet = "downloaded"
                        /\ s.summary = "downloaded"
    /\ \E v \in recon : ~v.parakeet /\ v.summary
    /\ currentStep = PARAKEET_STEP
    /\ ~completed
    /\ downloaded = [parakeet |-> FALSE, summary |-> TRUE]

\* C21: while the guard verifiedNotReady of a mounted view is engaged, its
\* status is not Downloaded, and its status changes only by the view's own
\* download call failing (Error) or by Retry (Downloading), never by a
\* value of the shared state.
C21_GuardSuppressesSync ==
    [][\A r \in Res :
         /\ tracker'[r].verifiedNotReady => tracker'[r].status # "downloaded"
         /\ (/\ currentStep = StepOf(r)
             /\ currentStep' = StepOf(r)
             /\ tracker[r].verifiedNotReady
             /\ tracker'[r].verifiedNotReady) =>
                \/ tracker'[r].status = tracker[r].status
                \/ /\ tracker[r].dlCall
                   /\ ~tracker'[r].dlCall
                   /\ tracker'[r].status = "error"
                \/ /\ tracker'[r].retryCount = tracker[r].retryCount + 1
                   /\ tracker'[r].status = "downloading"]_vars

\* C21 witness: the guard is engaged and the shared flag is true (set by a
\* 'completed' event below 100); the view still shows Downloading.
C21_Witness ==
    /\ currentStep = PARAKEET_STEP
    /\ tracker["parakeet"].verifiedNotReady
    /\ downloaded["parakeet"]
    /\ tracker["parakeet"].status = "downloading"

\* A completion signal of resource r in this step: its progress reaches
\* 100, or its running download ends with a terminal event.
CompletionSignal(r) ==
    \/ progress[r] < FULL_PROGRESS /\ progress'[r] >= FULL_PROGRESS
    \/ bk[r] = "active" /\ bk'[r] = "idle" /\ tracker'[r].sawCompletion

\* C22: the guard verifiedNotReady of a tracker goes from true to false
\* only in a step with a completion signal of its own resource.
C22_GuardClearedOnlyByCompletion ==
    [][\A r \in Res :
         (tracker[r].verifiedNotReady /\ ~tracker'[r].verifiedNotReady) =>
             CompletionSignal(r)]_vars

\* The running download of r ends in this step with a terminal event (and
\* not with a failure, which leaves an error in the view that called it).
TerminalEventStep(r) ==
    /\ bk[r] = "active"
    /\ bk'[r] = "idle"
    /\ onDisk'[r]
    /\ downloaded'[r]
    /\ tracker'[r].error = tracker[r].error

\* C23: a terminal event of r received while its view shows Downloading
\* leaves the view in Downloaded with the guard disengaged and the shared
\* downloaded flag true, whatever the progress value of the event.
C23_TerminalEventCompletes ==
    [][\A r \in Res :
         (/\ currentStep = StepOf(r)
          /\ currentStep' = StepOf(r)
          /\ tracker[r].status = "downloading"
          /\ TerminalEventStep(r)) =>
             /\ tracker'[r].status = "downloaded"
             /\ ~tracker'[r].verifiedNotReady
             /\ downloaded'[r]]_vars

\* The entries of a view into ReadyToDownload since it was mounted: its
\* negative verification and its retries.
ReadyEntries(t) == (IF t.verified = "missing" THEN 1 ELSE 0) + t.retryCount

\* C24: a view has issued as many download calls as it has entered
\* ReadyToDownload, and the step of an entry leaves it in Downloading with
\* its download call pending.
C24_OneDownloadPerEntry ==
    [][\A r \in Res :
         /\ tracker'[r].calls = ReadyEntries(tracker'[r])
         /\ (/\ currentStep = StepOf(r)
             /\ currentStep' = StepOf(r)
             /\ ReadyEntries(tracker'[r]) > ReadyEntries(tracker[r])) =>
                /\ tracker'[r].status = "downloading"
                /\ tracker'[r].dlCall]_vars

\* C25: the step that takes the user from the completion view to the
\* download step of r leaves the shared downloaded flag of r false in the
\* very state in which currentStep is that step, and the flag of the other
\* resource as it was.
C25_FixClearsFlagFirst ==
    [][\A r \in Res :
         (currentStep = COMPLETION_STEP /\ currentStep' = StepOf(r)) =>
             /\ ~downloaded'[r]
             /\ \A o \in Res \ {r} : downloaded'[o] = downloaded[o]]_vars

\* C25 witness: both resources had been downloaded, the transcription
\* resource was lost and Fix brought the user back to its step: the flag of
\* the transcription resource is false, that of the summary resource true.
C25_Witness ==
    /\ currentStep = PARAKEET_STEP
    /\ ~onDisk["parakeet"]
    /\ ~downloaded["parakeet"]
    /\ downloaded["summary"]
    /\ tracker["parakeet"].initPc = "verify"

\* C26: a retry (the step that changes retryCount of a mounted view) starts
\* from Error, adds exactly one to retryCount, clears the error and
\* re-enters ReadyToDownload, whose download call leaves the view in
\* Downloading; the guard and the shared downloaded flag keep their values.
C26_RetryFrame ==
    [][\A r \in Res :
         (/\ currentStep = StepOf(r)
          /\ currentStep' = StepOf(r)
          /\ tracker'[r].retryCount # tracker[r].retryCount) =>
             /\ tracker[r].status = "error"
             /\ tracker'[r].retryCount = tracker[r].retryCount + 1
             /\ tracker'[r].error = NoError
             /\ tracker'[r].status = "downloading"
             /\ tracker'[r].dlCall
             /\ tracker'[r].calls = tracker[r].calls + 1
             /\ tracker'[r].verifiedNotReady = tracker[r].verifiedNotReady
             /\ downloaded'[r] = downloaded[r]]_vars

\* C26 witness: the download of a resource verified missing failed and was
\* retried: second download call, no error, guard still engaged, shared
\* flag still false.
C26_Witness ==
    /\ currentStep = PARAKEET_STEP
    /\ tracker["parakeet"].retryCount = 1
    /\ tracker["parakeet"].calls = 2
    /\ tracker["parakeet"].error = NoError
    /\ tracker["parakeet"].status = "downloading"
    /\ tracker["parakeet"].verifiedNotReady
    /\ ~downloaded["parakeet"]

\* C27: a mounted view in Error stays in Error in every step that is not
\* its retry.
C27_ErrorUntilRetry ==
    [][\A r \in Res :
         (/\ currentStep = StepOf(r)
          /\ currentStep' = StepOf(r)
          /\ tracker[r].status = "error"
          /\ tracker'[r].status # "error") =>
             tracker'[r].retryCount = tracker[r].retryCount + 1]_vars

\* C28: a mounted view in Downloaded stays in Downloaded as long as it is
\* mounted, and the shared downloaded flag of its resource is true
\* whenever it shows Downloaded.
C28_DownloadedTerminal ==
    [][\A r \in Res :
         /\ (/\ currentStep = StepOf(r)
             /\ currentStep' = StepOf(r)
             /\ tracker[r].status = "downloaded") =>
                tracker'[r].status = "downloaded"
         /\ tracker'[r].status = "downloaded" => downloaded'[r]]_vars

\* The other resource.
Other(r) == IF r = "parakeet" THEN "summary" ELSE "parakeet"

\* This step delivers an event of the tracked model of r: only the
\* listeners write progress, and a terminal or error event ends the running
\* download.
TrackedEventStep(r) ==
    /\ foreign' = foreign
    /\ \/ progress'[r] # progress[r]
       \/ bk[r] = "active" /\ bk'[r] = "idle"

\* C29: an event of one resource leaves the progress and the downloaded
\* flag of the other resource unchanged, and an event whose model
\* identifier is not the tracked one of its stream changes nothing of the
\* controller or the views.
C29_StreamsIndependent ==
    [][/\ \A r \in Res :
            TrackedEventStep(r) =>
                /\ progress'[Other(r)] = progress[Other(r)]
                /\ downloaded'[Other(r)] = downloaded[Other(r)]
       /\ foreign' # foreign =>
            UNCHANGED <<envVars, ctlVars, loadVars, viewVars>>]_vars

\* The values the auto-save effect depends on.
SavedValues == <<currentStep, completed, downloaded>>

\* C30: while completed is false, every change of the saved values leaves
\* exactly one timer pending, carrying the values of that change (so the
\* changes of one window end in one save of the last values); a save is
\* issued only by the timer, which is then gone; and at most one save
\* request is outstanding at any time.
C30_DebouncedSingleFlight ==
    [][/\ (SavedValues' # SavedValues /\ ~completed') =>
            saveTimer' = {SavePayload(currentStep', completed', downloaded')}
       /\ saveTimer' \subseteq {SavePayload(currentStep', completed', downloaded')}
       /\ Cardinality(saveTimer') <= 1
       /\ saveInFlight' \ saveInFlight # {} =>
            (saveInFlight' \ saveInFlight = saveTimer /\ saveTimer' = {})
       /\ Cardinality(saveInFlight') <= 1]_vars

\* C32: the state adopted at startup, for every persisted record and every
\* pair of verification results: completed only with both resources
\* verified, a step beyond the transcription step only with the
\* transcription resource verified, a step beyond the summary step only
\* with the summary resource verified, and with both verified the persisted
\* current_step and completed as they are.
C32_AdoptedStateConsistent ==
    [][(loadPc = "verify" /\ loadPc' = "done") =>
         LET saved == CHOOSE s \in savedStatus : TRUE
             v == CHOOSE x \in recon' : TRUE
         IN  /\ completed' => (v.parakeet /\ v.summary)
             /\ currentStep' > PARAKEET_STEP => v.parakeet
             /\ currentStep' > SUMMARY_STEP => v.summary
             /\ (v.parakeet /\ v.summary) =>
                    /\ currentStep' = saved.current_step
                    /\ completed' = saved.completed]_vars

\* C32 witness: a completed record at step 2 was adopted with the
\* transcription resource verified and the summary resource not: the
\* controller is at the summary step, not completed.
C32_Witness ==
    /\ loadPc = "done"
    /\ \E s \in store : s.current_step = 2 /\ s.completed
    /\ \E v \in recon : v.parakeet /\ ~v.summary
    /\ currentStep = SUMMARY_STEP
    /\ ~completed
    /\ downloaded = [parakeet |-> TRUE, summary |-> FALSE]

\* C33: the result of startup reconciliation, arriving after its two awaits,
\* does not overwrite what the session wrote before it arrived: a
\* currentStep other than the initial one (only a navigation produces it)
\* stays, and a downloaded flag already set (only a tracker's verification
\* or a terminal progress event sets it) stays set.
C33_AdoptionKeepsSessionWrites ==
    [][(loadPc = "verify" /\ loadPc' = "done") =>
         /\ currentStep # MIN_STEP => currentStep' = currentStep
         /\ \A r \in Res : downloaded[r] => downloaded'[r]]_vars

\* The state of the provider that its consumers read.
ProviderState ==
    <<currentStep, completed, downloaded, progress, selectedSummaryModel>>

\* No subscription is left that events can reach or will reach.
AllReleased == \A s \in subs : s.reg \in {"released", "rejected"}

\* C31: once the provider is torn down, every subscription it acquired
\* (one whose registration was still pending, one replaced when the
\* selected summary model changed) is eventually released; the teardown
\* leaves no debounce timer pending; and after the teardown nothing
\* changes the provider's state and no save request is sent.
C31_TeardownReleases ==
    /\ (session = "unmounted") ~> AllReleased
    /\ [][session' = "unmounted" => saveTimer' = {}]_vars
    /\ [][session = "unmounted" =>
            /\ UNCHANGED ProviderState
            /\ saveInFlight' \subseteq saveInFlight]_vars

\* C31 witness: after the teardown all subscriptions are released, among
\* them a summary subscription that had been replaced and one whose
\* registration was pending when its cleanup ran, while a download that
\* was running has gone on emitting events.
C31_Witness ==
    /\ session = "unmounted"
    /\ \A s \in subs : s.reg = "released"
    /\ \E s \in subs : s.stream = SUMMARY_PROGRESS /\ s.gen = 2
    /\ \E s \in subs : s.cleanupAt = "pending"
    /\ \E r \in Res : bprog[r] = PartialProgress

====
